---------------------------- MODULE Spec2Model ----------------------------
(***************************************************************************)
(* SnapSaver: the download workflow of SnapSaverService (src/utils.ts),   *)
(* its decoder (SnapSaveDecoder) and its layout-polymorphic extractor      *)
(* (MediaExtractor).                                                       *)
(*                                                                         *)
(* Conventions.  A JavaScript string is a TLA+ string wherever the text is *)
(* printable ASCII (the fetched response, the cipher arguments, attribute  *)
(* values); the text produced by the decoder is a tuple of code points.    *)
(* SubSeq, Len and \o act alike on both.  An optional JavaScript value     *)
(* (an attribute that may be undefined) is the tuple <<>> when undefined   *)
(* and <<v>> when defined.  The result of code that may throw is a record  *)
(* [ok |-> TRUE, val |-> v] or [ok |-> FALSE, err |-> name].               *)
(***************************************************************************)
EXTENDS Integers, Sequences, FiniteSets, TLC

VARIABLES
    url,            \* the argument of download(url)
    pc,             \* position of the invocation in download
    trace,          \* stages entered so far, in order
    fetchCalls,     \* number of calls of apiClient.fetchMedia
    html,           \* what fetchMedia resolved with
    args,           \* getEncodedSnapApp's result (decodeSnapApp's args)
    i,              \* decodeSnapApp: index into encodedContent
    decodedResult,  \* decodeSnapApp: code units decoded so far
    decodedHtml,    \* decrypt's result
    doc,            \* the parsed document ($)
    layout,         \* which extractor produced media
    data,           \* download's data object
    media,          \* download's media array
    thrown,         \* the stage whose exception the catch block saw
    response,       \* what the promise resolved with
    conv            \* BaseConverter round trip: state of the conversion run

vars == <<url, pc, trace, fetchCalls, html, args, i, decodedResult,
          decodedHtml, doc, layout, data, media, thrown, response, conv>>

-----------------------------------------------------------------------------
(* Bounds of the model *)

\* largest integer whose base-10 digit string is converted and converted back
MaxN == 130

\* longest list of table rows, of cards and of download items in a document
MaxElems == 2

\* how many positions past the end of encodedContent the inner scan of
\* decodeSnapApp is followed; it stands for the number of iterations after
\* which the engine can no longer grow the segment string
MaxOverscan == 3

-----------------------------------------------------------------------------
(* JavaScript string primitives *)

CharAt(s, k) == SubSeq(s, k, k)

Min(S) == CHOOSE x \in S : \A y \in S : x <= y

\* String.prototype.indexOf, 1-based; 0 when sep does not occur at or after from
IndexOfFrom(s, sep, from) ==
    LET hits == {k \in from..(Len(s) - Len(sep) + 1) :
                    SubSeq(s, k, k + Len(sep) - 1) = sep}
    IN  IF hits = {} THEN 0 ELSE Min(hits)

IndexOf(s, sep) == IndexOfFrom(s, sep, 1)

Includes(s, sep) == IndexOf(s, sep) # 0

\* String.prototype.split with a non-empty separator
RECURSIVE Split(_, _)
Split(s, sep) ==
    LET k == IndexOf(s, sep)
    IN  IF k = 0 THEN <<s>>
        ELSE <<SubSeq(s, 1, k - 1)>> \o Split(SubSeq(s, k + Len(sep), Len(s)), sep)

\* String.prototype.replace(/c/g, by) for a one-character literal pattern
\* (the text is halved so that the depth of the recursion stays small)
RECURSIVE ReplaceAll(_, _, _)
ReplaceAll(s, c, by) ==
    IF Len(s) = 0 THEN s
    ELSE IF Len(s) = 1 THEN (IF s = c THEN by ELSE s)
    ELSE ReplaceAll(SubSeq(s, 1, Len(s) \div 2), c, by)
            \o ReplaceAll(SubSeq(s, (Len(s) \div 2) + 1, Len(s)), c, by)

WhiteSpace == {" ", "\t", "\n", "\r", "\f"}

\* String.prototype.trim
Trim(s) ==
    LET keep == {k \in 1..Len(s) : CharAt(s, k) \notin WhiteSpace}
    IN  IF keep = {} THEN SubSeq(s, 1, 0)
        ELSE SubSeq(s, Min(keep), CHOOSE x \in keep : \A y \in keep : y <= x)

\* Array.prototype.slice(0, end) / String.prototype.slice(0, end)
Slice0(s, end) ==
    LET e == IF end < 0 THEN (IF Len(s) + end < 0 THEN 0 ELSE Len(s) + end)
             ELSE IF end > Len(s) THEN Len(s) ELSE end
    IN  SubSeq(s, 1, e)

DigitChars == "0123456789"

\* Number.prototype.toString() of a non-negative integer
RECURSIVE NumToStr(_)
NumToStr(n) ==
    IF n < 10 THEN CharAt(DigitChars, n + 1)
    ELSE NumToStr(n \div 10) \o CharAt(DigitChars, (n % 10) + 1)

-----------------------------------------------------------------------------
(* SnapSaveDecoder.decodeSnapApp: decodeNumber *)

charset == "0123456789abcdefghijklmnopqrstuvwxyzABCDEFGHIJKLMNOPQRSTUVWXYZ+/"

\* Array.prototype.indexOf on an array of characters: 0-based, -1 when absent
ArrIndexOf(arr, c) == IndexOf(arr, c) - 1

\* arr[k] used in a string concatenation: "undefined" out of range
ArrAt(arr, k) == IF k >= 0 /\ k < Len(arr) THEN CharAt(arr, k + 1) ELSE "undefined"

\* Math.pow(b, k) for an integer b and an index k
Pow(b, k) == IF k = 0 THEN 1 ELSE b ^ k

\* the reduce over value.split("").reverse(): index 0 is the last character
decodeNumberDecimal(value, fromBase) ==
    LET fromCharset == Slice0(charset, fromBase)
        n == Len(value)
        term(k) == LET idx == ArrIndexOf(fromCharset, CharAt(value, n - k))
                   IN  IF idx # -1 THEN idx * Pow(fromBase, k) ELSE 0
        sum[k \in 0..n] == IF k = 0 THEN 0 ELSE sum[k - 1] + term(k - 1)
    IN  sum[n]

\* the while (decimal > 0) loop
RECURSIVE decodeNumberDigits(_, _, _)
decodeNumberDigits(decimal, toBase, result) ==
    IF decimal > 0
    THEN decodeNumberDigits((decimal - (decimal % toBase)) \div toBase, toBase,
                            ArrAt(Slice0(charset, toBase), decimal % toBase) \o result)
    ELSE result

\* a mutant of decodeNumber: the digits are not reversed before the reduce, so
\* position 0 is taken to be the first character
decodeNumberNoReverse(value, fromBase, toBase) ==
    LET fromCharset == Slice0(charset, fromBase)
        n == Len(value)
        term(k) == LET idx == ArrIndexOf(fromCharset, CharAt(value, k + 1))
                   IN  IF idx # -1 THEN idx * Pow(fromBase, k) ELSE 0
        sum[k \in 0..n] == IF k = 0 THEN 0 ELSE sum[k - 1] + term(k - 1)
        result == decodeNumberDigits(sum[n], toBase, "")
    IN  IF result = "" THEN "0" ELSE result

decodeNumber(value, fromBase, toBase) ==
    LET result == decodeNumberDigits(decodeNumberDecimal(value, fromBase), toBase, "")
    IN  IF result = "" THEN "0" ELSE result

-----------------------------------------------------------------------------
(* Character codes *)

\* the printable ASCII characters in code order: codes 32..95 and 97..126
\* (code 96, the grave accent, cannot be written in a string of this notation)
PrintableLow == " !\"#$%&'()*+,-./0123456789:;<=>?@ABCDEFGHIJKLMNOPQRSTUVWXYZ[\\]^_"

PrintableHigh == "abcdefghijklmnopqrstuvwxyz{|}~"

\* String.prototype.charCodeAt(0) of a character a string of this notation
\* can hold: tab, line feed, form feed, carriage return, printable ASCII
Ord(c) ==
    CASE c = "\t" -> 9
      [] c = "\n" -> 10
      [] c = "\f" -> 12
      [] c = "\r" -> 13
      [] Includes(PrintableLow, c) -> 31 + IndexOf(PrintableLow, c)
      [] OTHER -> 96 + IndexOf(PrintableHigh, c)

\* the UTF-16 code units of a string
Codes(str) == [k \in 1..Len(str) |-> Ord(CharAt(str, k))]

\* A JavaScript number: NaN is <<>>, an integer n is <<n>>, another finite
\* number is <<p, q>> (the fraction p / q in lowest terms, q > 1), and
\* Infinity and -Infinity are <<1, 0>> and <<-1, 0>>.  The code computes in
\* doubles: a fraction whose denominator is a power of two is a double, any
\* other fraction stands for the double next to it (see
\* decodeNumberFractionBase for what the rounding can change).
NaN == <<>>

PosInfinity == <<1, 0>>

NegInfinity == <<-1, 0>>

IsNaN(x) == Len(x) = 0

IsInt(x) == Len(x) = 1

IsInf(x) == Len(x) = 2 /\ x[2] = 0

IsFrac(x) == Len(x) = 2 /\ x[2] > 1

Abs(n) == IF n < 0 THEN 0 - n ELSE n

RECURSIVE GCD(_, _)
GCD(m, n) == IF n = 0 THEN m ELSE GCD(n, m % n)

\* the number p / q, q > 0
Fraction(p, q) ==
    LET g == GCD(Abs(p), q)
    IN  IF q \div g = 1 THEN <<p \div g>> ELSE <<p \div g, q \div g>>

\* numerator and denominator of a finite number
Num(x) == x[1]

Den(x) == IF Len(x) = 1 THEN 1 ELSE x[2]

\* ToIntegerOrInfinity of a finite number: the fraction is dropped
Trunc(x) ==
    IF Num(x) >= 0 THEN Num(x) \div Den(x) ELSE 0 - ((0 - Num(x)) \div Den(x))

IsDigits(s) == Len(s) > 0 /\ \A k \in 1..Len(s) : Includes(DigitChars, CharAt(s, k))

RECURSIVE DigitsValue(_)
DigitsValue(s) ==
    IF Len(s) = 0 THEN 0
    ELSE 10 * DigitsValue(SubSeq(s, 1, Len(s) - 1))
            + (IndexOf(DigitChars, CharAt(s, Len(s))) - 1)

\* the digits of the literals 0x.., 0o.., 0b.., in either letter case
RadixLower == "0123456789abcdef"

RadixUpper == "0123456789ABCDEF"

RadixDigit(c) ==
    IF Includes(RadixLower, c) THEN IndexOf(RadixLower, c) - 1
    ELSE IF Includes(RadixUpper, c) THEN IndexOf(RadixUpper, c) - 1
    ELSE 16

IsRadixDigits(s, radix) ==
    Len(s) > 0 /\ \A k \in 1..Len(s) : RadixDigit(CharAt(s, k)) < radix

RECURSIVE RadixValue(_, _)
RadixValue(s, radix) ==
    IF Len(s) = 0 THEN 0
    ELSE radix * RadixValue(SubSeq(s, 1, Len(s) - 1), radix)
            + RadixDigit(CharAt(s, Len(s)))

\* the radix a literal's prefix announces, 0 when it has no such prefix
RadixOf(s) ==
    IF Len(s) < 2 \/ CharAt(s, 1) # "0" THEN 0
    ELSE CASE CharAt(s, 2) \in {"x", "X"} -> 16
           [] CharAt(s, 2) \in {"o", "O"} -> 8
           [] CharAt(s, 2) \in {"b", "B"} -> 2
           [] OTHER -> 0

\* (In what follows CHOOSE r \in {F(x) : x \in {v}} : TRUE is F(v), with the
\* argument computed once, before the call.)

\* the text before and the text after position k of s; all of s and the text
\* none when k is 0
SplitAt(s, k, none) ==
    IF k = 0 THEN <<s, none>> ELSE <<SubSeq(s, 1, k - 1), SubSeq(s, k + 1, Len(s))>>

\* where the exponent part of a decimal literal begins, 0 when it has none
ExponentAt(s) ==
    LET hits == {k \in 1..Len(s) : CharAt(s, k) \in {"e", "E"}}
    IN  IF hits = {} THEN 0 ELSE Min(hits)

\* an unsigned decimal literal in its parts: the digits before the ".", the
\* digits after it, the exponent ("0" when there is no exponent part)
DecimalParts(s) ==
    CHOOSE r \in UNION {{<<m[1], m[2], me[2]>> :
                              m \in {SplitAt(me[1], IndexOf(me[1], "."), "")}} :
                         me \in {SplitAt(s, ExponentAt(s), "0")}} : TRUE

IsSignedDigits(s) ==
    \/ IsDigits(s)
    \/ Len(s) > 1 /\ CharAt(s, 1) \in {"+", "-"} /\ IsDigits(SubSeq(s, 2, Len(s)))

SignedDigitsValue(s) ==
    IF CharAt(s, 1) = "-" THEN 0 - DigitsValue(SubSeq(s, 2, Len(s)))
    ELSE IF CharAt(s, 1) = "+" THEN DigitsValue(SubSeq(s, 2, Len(s)))
    ELSE DigitsValue(s)

\* digits, an optional "." with digits on at least one side, an optional
\* exponent part
IsDecimalLiteral(parts) ==
    /\ Len(parts[1]) + Len(parts[2]) > 0
    /\ parts[1] = "" \/ IsDigits(parts[1])
    /\ parts[2] = "" \/ IsDigits(parts[2])
    /\ IsSignedDigits(parts[3])

\* sgn * digits * 10^scale
Scaled(sgn, digits, scale) ==
    IF digits = 0 THEN <<0>>
    ELSE IF scale >= 0 THEN <<sgn * digits * Pow(10, scale)>>
    ELSE Fraction(sgn * digits, Pow(10, 0 - scale))

\* the value of the decimal literal with these parts and the sign sgn, NaN
\* when the parts make no literal
DecimalValue(parts, sgn) ==
    IF ~IsDecimalLiteral(parts) THEN NaN
    ELSE CHOOSE r \in {Scaled(sgn, v[1], v[2]) :
                           v \in {<<DigitsValue(parts[1] \o parts[2]),
                                    SignedDigitsValue(parts[3]) - Len(parts[2])>>}} : TRUE

\* the value of a text without white space around it as a numeric literal:
\* "" is 0, and a text that is no numeric literal is NaN
StringToNumber(s) ==
    LET signed == Len(s) > 0 /\ CharAt(s, 1) \in {"+", "-"}
        body == IF signed THEN SubSeq(s, 2, Len(s)) ELSE s
        sgn == IF signed /\ CharAt(s, 1) = "-" THEN -1 ELSE 1
    IN  IF IsDigits(s) THEN <<DigitsValue(s)>>
        ELSE IF s = "" THEN <<0>>
        ELSE IF body = "Infinity" THEN <<sgn, 0>>
        ELSE IF RadixOf(s) # 0
        THEN (IF IsRadixDigits(SubSeq(s, 3, Len(s)), RadixOf(s))
              THEN <<RadixValue(SubSeq(s, 3, Len(s)), RadixOf(s))>> ELSE NaN)
        ELSE CHOOSE r \in {DecimalValue(parts, sgn) : parts \in {DecimalParts(body)}} : TRUE

\* Number(s) and the implicit ToNumber of the arithmetic operators: the white
\* space around the text is dropped
ToNumber(str) == CHOOSE r \in {StringToNumber(s) : s \in {Trim(str)}} : TRUE

\* String.fromCharCode(x): ToUint16; NaN and the infinities are 0
fromCharCode(x) == IF IsNaN(x) \/ IsInf(x) THEN 0 ELSE Trunc(x) % 65536

-----------------------------------------------------------------------------
(* SnapSaveDecoder.getEncodedSnapApp *)

OpenMarker == "decodeURIComponent(escape(r))}("

CloseMarker == "))"

TypeError == [ok |-> FALSE, err |-> "TypeError"]

Ok(v) == [ok |-> TRUE, val |-> v]

getEncodedSnapApp(d) ==
    LET parts == Split(d, OpenMarker)
    IN  IF Len(parts) < 2 THEN TypeError      \* undefined.split
        ELSE LET raw == Split(Split(parts[2], CloseMarker)[1], ",")
             IN  Ok([k \in 1..Len(raw) |-> Trim(ReplaceAll(raw[k], "\"", ""))])

-----------------------------------------------------------------------------
(* SnapSaveDecoder.decodeSnapApp: one iteration of the outer for loop *)

\* segment.replace(new RegExp(c, "g"), by) for the one-character pattern c:
\* most characters are literals, "." matches any character but a line
\* terminator, "^", "$" and "|"
\* match empty strings, and the remaining metacharacters are no pattern
RegExpThrows(c) == c \in {"(", ")", "[", "\\", "*", "+", "?"}

RECURSIVE Repeat(_, _)
Repeat(by, n) == IF n = 0 THEN "" ELSE by \o Repeat(by, n - 1)

RECURSIVE Interleave(_, _)
Interleave(s, by) ==
    IF Len(s) = 0 THEN by ELSE by \o CharAt(s, 1) \o Interleave(SubSeq(s, 2, Len(s)), by)

\* the line terminators, which "." does not match
LineTerminators == {"\n", "\r"}

\* replace(/./g, by): every character but a line terminator is replaced
RECURSIVE DotReplaceAll(_, _)
DotReplaceAll(s, by) ==
    IF Len(s) = 0 THEN s
    ELSE IF Len(s) = 1 THEN (IF s \in LineTerminators THEN s ELSE by)
    ELSE DotReplaceAll(SubSeq(s, 1, Len(s) \div 2), by)
            \o DotReplaceAll(SubSeq(s, (Len(s) \div 2) + 1, Len(s)), by)

RegExpReplaceAll(s, c, by) ==
    CASE c = "."  -> DotReplaceAll(s, by)
      [] c = "^"  -> by \o s
      [] c = "$"  -> s \o by
      [] c = "|"  -> Interleave(s, by)
      [] OTHER    -> ReplaceAll(s, c, by)

SyntaxError == [ok |-> FALSE, err |-> "SyntaxError"]

\* the for (j ...) loop: every symbol of charMap, in map order, is replaced by
\* the decimal string of its index
RECURSIVE substitute(_, _, _)
substitute(segment, charMap, j) ==
    IF j >= Len(charMap) THEN Ok(segment)
    ELSE IF RegExpThrows(CharAt(charMap, j + 1)) THEN SyntaxError
    ELSE substitute(RegExpReplaceAll(segment, CharAt(charMap, j + 1), NumToStr(j)),
                    charMap, j + 1)

\* charMap[Number(base)] as an optional character: undefined when base is
\* missing, or its number is no index of charMap
delimiter(a) ==
    IF Len(a) < 5 THEN <<>>
    ELSE LET n == ToNumber(a[5])
         IN  IF IsInt(n) /\ n[1] >= 0 /\ n[1] < Len(a[3]) THEN <<CharAt(a[3], n[1] + 1)>>
             ELSE <<>>

\* decodeNumber(segment, undefined, 10): slice(0, undefined) keeps the whole
\* charset, Math.pow(undefined, 0) is 1 and Math.pow(undefined, k) is NaN
decodeNumberUndefinedBase(value) ==
    LET n == Len(value)
        nan == \E k \in 1..(n - 1) : Includes(charset, CharAt(value, k))
        last == IF n = 0 THEN -1 ELSE ArrIndexOf(charset, CharAt(value, n))
        result == decodeNumberDigits(IF nan \/ last = -1 THEN 0 ELSE last, 10, "")
    IN  IF result = "" THEN "0" ELSE result

\* decodeNumber(segment, Infinity, 10): slice(0, Infinity) keeps the whole
\* charset; Math.pow(Infinity, 0) is 1; at an index k > 0 the digit 0 gives
\* 0 * Infinity = NaN and another digit gives Infinity. A sum that is NaN ends
\* in "0"; a sum that is Infinity passes the loop once, where Infinity % 10 is
\* NaN: the digit is undefined and decimal becomes NaN.
decodeNumberInfiniteBase(value) ==
    LET n == Len(value)
        idx(k) == ArrIndexOf(charset, CharAt(value, k))
        nan == \E k \in 1..(n - 1) : idx(k) = 0
        inf == \E k \in 1..(n - 1) : idx(k) > 0
        last == IF n = 0 \/ idx(n) = -1 THEN 0 ELSE idx(n)
        result == decodeNumberDigits(last, 10, "")
    IN  IF nan THEN "0"
        ELSE IF inf THEN "undefined"
        ELSE IF result = "" THEN "0" ELSE result

RECURSIVE IsPowerOfTwo(_)
IsPowerOfTwo(n) == n = 1 \/ (n > 1 /\ n % 2 = 0 /\ IsPowerOfTwo(n \div 2))

\* decodeNumber(segment, p / q, 10) for a base that is not an integer: the
\* set of the strings it may return.  slice(0, base) drops the fraction, the
\* sum is a fraction over q^(n-1); a decimal that is not an integer has no
\* digit in toCharset (undefined), and (decimal - decimal % 10) / 10 is an
\* integer from then on.
\* When q is not a power of two the base is not a double, and a term
\* idx * Math.pow(base, k) with k > 0 is rounded twice: by the conversion of
\* the base, and by Math.pow, whose result the language leaves to the
\* implementation (an approximation).  The sum computed then differs from the
\* exact sum by a few units in the last place.  That changes the result only
\* where the exact sum is an integer d: the sum computed is d, or just above
\* d, or just below d, and the last two are no integers.
decodeNumberFractionBase(value, base) ==
    LET fromCharset == Slice0(charset, Trunc(base))
        n == Len(value)
        p == Num(base)
        q == Den(base)
        idx(k) == ArrIndexOf(fromCharset, CharAt(value, n - k))
        term(k) == IF idx(k) # -1 THEN idx(k) * Pow(p, k) * Pow(q, n - 1 - k) ELSE 0
        sum[k \in 0..n] == IF k = 0 THEN 0 ELSE sum[k - 1] + term(k - 1)
        decimal == IF n = 0 THEN <<0>> ELSE Fraction(sum[n], Pow(q, n - 1))
        rounded == ~IsPowerOfTwo(q) /\ \E k \in 1..(n - 1) : idx(k) > 0
        orZero(result) == IF result = "" THEN "0" ELSE result
        exact == IF IsInt(decimal) THEN decodeNumberDigits(decimal[1], 10, "")
                 ELSE IF Num(decimal) > 0
                 THEN decodeNumberDigits(Num(decimal) \div (10 * Den(decimal)), 10,
                                         "undefined")
                 ELSE ""
        above == IF decimal[1] >= 0
                 THEN decodeNumberDigits(decimal[1] \div 10, 10, "undefined") ELSE ""
        below == IF decimal[1] >= 1
                 THEN decodeNumberDigits((decimal[1] - 1) \div 10, 10, "undefined") ELSE ""
    IN  IF rounded /\ IsInt(decimal)
        THEN {orZero(exact), orZero(above), orZero(below)}
        ELSE {orZero(exact)}

\* decodeNumber(segment, base, 10) with base as it stands in args, the text
\* of a number, which slice and Math.pow convert: the set of the strings it
\* may return, one string but for a base that is no double
decodeSegment(segment, a) ==
    IF Len(a) < 5 THEN {decodeNumberUndefinedBase(segment)}
    ELSE LET base == ToNumber(a[5])
         IN  CASE IsNaN(base)       -> {decodeNumber(segment, 0, 10)}  \* slice(0, NaN)
               [] IsInt(base)       -> {decodeNumber(segment, base[1], 10)}
               [] base = PosInfinity -> {decodeNumberInfiniteBase(segment)}
               [] base = NegInfinity -> {decodeNumber(segment, 0, 10)} \* slice(0, -Infinity)
               [] OTHER             -> decodeNumberFractionBase(segment, base)

\* x - y on numbers
Subtract(x, y) ==
    IF IsNaN(x) \/ IsNaN(y) THEN NaN
    ELSE IF IsInf(x) THEN (IF y = x THEN NaN ELSE x)
    ELSE IF IsInf(y) THEN <<0 - y[1], 0>>
    ELSE Fraction(Num(x) * Den(y) - Num(y) * Den(x), Den(x) * Den(y))

\* x - subtractValue
Minus(x, a) ==
    CHOOSE r \in {Subtract(x, y) :
                      y \in {IF Len(a) < 4 THEN NaN ELSE ToNumber(a[4])}} : TRUE

\* where the inner while loop stops when entered at index k (0-based): the
\* index of the next delimiter, the length when the delimiter is undefined,
\* and -1 when the delimiter is a character that does not occur from k on
scanEnd(a, k) ==
    IF delimiter(a) = <<>> THEN Len(a[1])
    ELSE IndexOfFrom(a[1], delimiter(a)[1], k + 1) - 1

\* one iteration of the outer loop entered at index k < encodedContent.length
\* with a scan that stops: the set of its outcomes, each an exception or the
\* code unit appended and the next value of i (one outcome but for a base
\* that is no double)
decodeStep(a, k) ==
    IF Len(a) < 3 THEN {TypeError}        \* charMap is undefined
    ELSE LET e == scanEnd(a, k)
             sub == substitute(SubSeq(a[1], k + 1, e), a[3], 0)
         IN  IF ~sub.ok THEN {sub}
             ELSE {Ok([unit |-> CHOOSE r \in {fromCharCode(d) :
                                    d \in {Minus(n, a) : n \in {ToNumber(str)}}} : TRUE,
                       next |-> e + 1]) : str \in decodeSegment(sub.val, a)}

-----------------------------------------------------------------------------
(* SnapSaveDecoder.fixEncoding *)

\* a code point as UTF-16 code units
CodeUnits(cp) ==
    IF cp > 65535
    THEN <<55296 + ((cp - 65536) \div 1024), 56320 + ((cp - 65536) % 1024)>>
    ELSE <<cp>>

\* TextDecoder("utf-8"), not fatal: the UTF-8 decoder with U+FFFD for errors
RECURSIVE Utf8Run(_, _, _, _, _, _, _, _)
Utf8Run(bytes, k, cp, needed, seen, lower, upper, out) ==
    IF k > Len(bytes) THEN (IF needed # 0 THEN Append(out, 65533) ELSE out)
    ELSE LET b == bytes[k] IN
         IF needed = 0
         THEN CASE b <= 127 ->
                     Utf8Run(bytes, k + 1, 0, 0, 0, 128, 191, Append(out, b))
                [] b >= 194 /\ b <= 223 ->
                     Utf8Run(bytes, k + 1, b - 192, 1, 0, 128, 191, out)
                [] b >= 224 /\ b <= 239 ->
                     Utf8Run(bytes, k + 1, b - 224, 2, 0,
                             IF b = 224 THEN 160 ELSE 128,
                             IF b = 237 THEN 159 ELSE 191, out)
                [] b >= 240 /\ b <= 244 ->
                     Utf8Run(bytes, k + 1, b - 240, 3, 0,
                             IF b = 240 THEN 144 ELSE 128,
                             IF b = 244 THEN 143 ELSE 191, out)
                [] OTHER ->
                     Utf8Run(bytes, k + 1, 0, 0, 0, 128, 191, Append(out, 65533))
         ELSE IF b < lower \/ b > upper
         THEN Utf8Run(bytes, k, 0, 0, 0, 128, 191, Append(out, 65533))
         ELSE IF seen + 1 = needed
         THEN Utf8Run(bytes, k + 1, 0, 0, 0, 128, 191,
                      out \o CodeUnits(cp * 64 + (b - 128)))
         ELSE Utf8Run(bytes, k + 1, cp * 64 + (b - 128), needed, seen + 1,
                      128, 191, out)

fixEncoding(str) ==
    LET bytes == [k \in 1..Len(str) |-> str[k] % 256]    \* Uint8Array
        bom == Len(bytes) >= 3 /\ SubSeq(bytes, 1, 3) = <<239, 187, 191>>
    IN  Utf8Run(bytes, IF bom THEN 4 ELSE 1, 0, 0, 0, 128, 191, <<>>)

-----------------------------------------------------------------------------
(* SnapSaveDecoder.getDecodedSnapSave *)

InnerHtmlMarker == Codes("getElementById(\"download-section\").innerHTML = \"")

RemoveMarker == Codes("\"; document.getElementById(\"inputData\").remove(); ")

\* replace(/\\(\\)?/g, ""): every backslash goes, with a backslash after it
RECURSIVE Unescape(_)
Unescape(s) ==
    IF Len(s) = 0 THEN s
    ELSE IF s[1] = 92
    THEN (IF Len(s) >= 2 /\ s[2] = 92 THEN Unescape(SubSeq(s, 3, Len(s)))
          ELSE Unescape(SubSeq(s, 2, Len(s))))
    ELSE <<s[1]>> \o Unescape(SubSeq(s, 2, Len(s)))

getDecodedSnapSave(d) ==
    LET parts == Split(d, InnerHtmlMarker)
    IN  IF Len(parts) < 2 THEN TypeError      \* undefined.split
        ELSE Ok(Unescape(Split(parts[2], RemoveMarker)[1]))

-----------------------------------------------------------------------------
(* The platform patterns and UrlValidator *)

Lower == "abcdefghijklmnopqrstuvwxyz"

Upper == "ABCDEFGHIJKLMNOPQRSTUVWXYZ"

\* [a-zA-Z0-9\-_]
IdChars == Lower \o Upper \o DigitChars \o "-_"

\* \w
WordChars == Lower \o Upper \o DigitChars \o "_"

RECURSIVE ToLower(_)
ToLower(s) ==
    IF Len(s) = 0 THEN s
    ELSE IF Len(s) = 1
    THEN (IF Includes(Upper, s) THEN CharAt(Lower, IndexOf(Upper, s)) ELSE s)
    ELSE ToLower(SubSeq(s, 1, Len(s) \div 2))
            \o ToLower(SubSeq(s, (Len(s) \div 2) + 1, Len(s)))

StartsWith(s, p) == Len(s) >= Len(p) /\ SubSeq(s, 1, Len(p)) = p

Drop(s, n) == SubSeq(s, n + 1, Len(s))

\* Matching a pattern from the left: a set of texts stands for the texts that
\* may remain after the part of the pattern matched so far.
\* Lit: a literal; Alt: an alternation of literals; Opt: an optional one.
Lit(S, p) == {Drop(r, Len(p)) : r \in {q \in S : StartsWith(q, p)}}

Alt(S, P) == UNION {Lit(S, p) : p \in P}

Opt(S, P) == S \cup Alt(S, P)

\* ^https?:\/\/
Scheme(u) == Alt({u}, {"http://", "https://"})

\* a character class followed at least once
Plus(r, class) == Len(r) > 0 /\ Includes(class, CharAt(r, 1))

\* how many characters of the class r begins with
RunLen(r, class) ==
    LET stops == {k \in 1..Len(r) : ~Includes(class, CharAt(r, k))}
    IN  IF stops = {} THEN Len(r) ELSE Min(stops) - 1

\* class+ : the texts that may remain after one or more characters of the class
Many1(S, class) == UNION {{Drop(r, n) : n \in 1..RunLen(r, class)} : r \in S}

\* (?:[^/?#&]+)?.*$ : the rest of the text is matched to its end, and "."
\* matches no line terminator, so every line terminator of the rest has to
\* stand before its first / ? # &
TailToEnd(r) ==
    LET stops == {k \in 1..Len(r) : CharAt(r, k) \in {"/", "?", "#", "&"}}
        from == IF stops = {} THEN Len(r) + 1 ELSE Min(stops)
    IN  \A k \in from..Len(r) : CharAt(r, k) \notin LineTerminators

\* the texts that may remain after facebook.com/ and one of the six
\* alternatives of the first branch of facebookRegex
facebookPaths(u) ==
    LET R0 == Lit(Opt(Scheme(u), {"www.", "web.", "m."}), "facebook.com/")
        posts(S) == Many1(Lit(Alt(Lit(S, "/"), {"videos", "posts"}), "/"), DigitChars)
        share == Many1(Lit(Alt(Lit(R0, "share/"), {"v", "r"}), "/"), IdChars)
    IN  \* watch(?:\?v=|\/\?v=)[0-9]+(?!\/)
        {t \in Many1(Alt(Lit(R0, "watch"), {"?v=", "/?v="}), DigitChars) :
              ~StartsWith(t, "/")}
        \* reel\/[0-9]+
        \cup Many1(Lit(R0, "reel/"), DigitChars)
        \* [a-zA-Z0-9.\-_]+\/(?:videos|posts)\/[0-9]+
        \cup posts(Many1(R0, IdChars \o "."))
        \* [0-9]+\/(?:videos|posts)\/[0-9]+
        \cup posts(Many1(R0, DigitChars))
        \* share\/(?:v|r)\/[a-zA-Z0-9\-_]+\/?
        \cup Opt(share, {"/"})
        \* [a-zA-Z0-9.\-_]+
        \cup Many1(R0, IdChars \o ".")

\* facebookRegex: the first branch with its tail, or the fb.watch branch,
\* which is anchored at both ends
facebookRegex(u) ==
    \/ \E r \in facebookPaths(u) : TailToEnd(r)
    \/ \E r \in Lit({u}, "https://fb.watch/") :
            Len(r) > 0 /\ \A k \in 1..Len(r) : Includes(IdChars, CharAt(r, k))

\* instagramRegex
instagramRegex(u) ==
    \E r \in Lit(Alt(Lit(Opt(Scheme(u), {"www."}), "instagram.com/"),
                     {"p", "reel", "reels", "tv", "stories", "share"}), "/") :
        Len(r) > 0 /\ CharAt(r, 1) \notin {"/", "?", "#", "&"}

\* tiktokRegex, with the i flag: the pattern's literals are lower case and its
\* classes are closed under case, so the lower-cased text is matched.  The
\* alternatives v\/\d+ and t\/[\w]+ begin with a word character and are
\* covered by the last one, [\w-]+.
tiktokRegex(u) ==
    \E r \in Lit(Opt(Scheme(ToLower(u)), {"www.", "m.", "vm.", "vt."}), "tiktok.com/") :
        \/ Plus(r, WordChars \o "-")
        \/ /\ StartsWith(r, "@")
           /\ LET k == IndexOf(r, "/")
              IN  /\ k >= 3
                  /\ \E t \in Alt({Drop(r, k)}, {"video/", "photo/"}) : Plus(t, DigitChars)

\* UrlValidator.isValid with the default patterns
isValid(u) == facebookRegex(u) \/ instagramRegex(u) \/ tiktokRegex(u)

-----------------------------------------------------------------------------
(* utils: fixThumbnail *)

HexDigits == "0123456789abcdef"

IsHex(c) == Includes(HexDigits, ToLower(c))

HexValue(c) == IndexOf(HexDigits, ToLower(c)) - 1

URIError == [ok |-> FALSE, err |-> "URIError"]

IsEscape(s) == Len(s) >= 3 /\ CharAt(s, 1) = "%" /\ IsHex(CharAt(s, 2)) /\ IsHex(CharAt(s, 3))

EscapeByte(s) == 16 * HexValue(CharAt(s, 2)) + HexValue(CharAt(s, 3))

\* decodeURIComponent.  The result is the tuple of the UTF-16 code units of
\* the decoded string: a character that is no "%" stands for itself, an
\* escape sequence for the character its bytes encode in UTF-8; a "%" that
\* begins no such sequence is a URIError.
RECURSIVE decodeURIComponent(_)
decodeURIComponent(s) ==
    IF Len(s) = 0 THEN Ok(<<>>)
    ELSE IF CharAt(s, 1) # "%"
    THEN LET rest == decodeURIComponent(Drop(s, 1))
         IN  IF rest.ok THEN Ok(<<Ord(CharAt(s, 1))>> \o rest.val) ELSE rest
    ELSE IF ~IsEscape(s) THEN URIError
    ELSE LET b == EscapeByte(s)
             n == CASE b <= 127 -> 1
                    [] b >= 192 /\ b <= 223 -> 2
                    [] b >= 224 /\ b <= 239 -> 3
                    [] b >= 240 /\ b <= 247 -> 4
                    [] OTHER -> 0
         IN  IF n = 0 \/ Len(s) < 3 * n
                \/ \E k \in 1..(n - 1) :
                       \/ ~IsEscape(Drop(s, 3 * k))
                       \/ EscapeByte(Drop(s, 3 * k)) < 128
                       \/ EscapeByte(Drop(s, 3 * k)) > 191
             THEN URIError
             ELSE LET bytes == [k \in 1..n |-> EscapeByte(Drop(s, 3 * (k - 1)))]
                      units == Utf8Run(bytes, 1, 0, 0, 0, 128, 191, <<>>)
                      valid == \/ bytes = <<239, 191, 189>>
                               \/ \A k \in 1..Len(units) : units[k] # 65533
                      rest == decodeURIComponent(Drop(s, 3 * n))
                  IN  IF ~valid THEN URIError
                      ELSE IF rest.ok THEN Ok(units \o rest.val) ELSE rest

ThumbnailProxy == "https://snapinsta.app/photo.php?photo="

\* String.prototype.replace(literal, "") : the first occurrence is removed
RemoveFirst(s, lit) ==
    LET k == IndexOf(s, lit)
    IN  IF k = 0 THEN s ELSE SubSeq(s, 1, k - 1) \o Drop(s, k + Len(lit) - 1)

\* fixThumbnail; the returned string as the tuple of its UTF-16 code units
fixThumbnail(u) ==
    IF Includes(u, ThumbnailProxy) THEN decodeURIComponent(RemoveFirst(u, ThumbnailProxy))
    ELSE Ok(Codes(u))

-----------------------------------------------------------------------------
(* The parsed document.  A document is what the selectors of download and   *)
(* of MediaExtractor find in it:                                           *)
(*   table       $("table.table").length > 0                               *)
(*   figure      $("article.media > figure").length > 0                    *)
(*   description the text of $("span.video-des")                           *)
(*   figureImg   the src of the first img under article.media > figure     *)
(*   rows        $("tbody > tr"): the text of td 0, the a and the button   *)
(*               elements of td 2                                          *)
(*   cards       $("div.card"): the a elements of its div.card-body        *)
(*   items       $("div.download-items"): the src of its thumb img, the a  *)
(*               elements and the span text of its div.download-items__btn *)
(*   anchors     $("a"), buttons  $("button"), in document order           *)
(* An a element is [text, href], a button element is [onclick]; href, src   *)
(* and onclick are optional.                                               *)
(***************************************************************************)

Truthy(o) == o # <<>> /\ o[1] # ""

\* a || b
OrElse(a, b) == IF Truthy(a) THEN a ELSE b

\* .attr("href") and .attr("onclick") of a selection: of its first element
FirstHref(as) == IF Len(as) = 0 THEN <<>> ELSE as[1].href

FirstOnclick(bs) == IF Len(bs) = 0 THEN <<>> ELSE bs[1].onclick

\* .text() of a selection: the texts of its elements, concatenated
RECURSIVE TextOf(_)
TextOf(as) == IF Len(as) = 0 THEN "" ELSE as[1].text \o TextOf(Tail(as))

-----------------------------------------------------------------------------
(* MediaExtractor *)

\* extractMetadata
extractMetadata(d) ==
    (IF Trim(d.description) # "" THEN [description |-> Trim(d.description)] ELSE <<>>)
    @@ (IF Truthy(d.figureImg) THEN [preview |-> d.figureImg[1]] ELSE <<>>)

SnapSaveHost == "https://snapsave.app"

\* /get_progressApi/ig.test(x)
progressApiTest(x) == Includes(ToLower(x), "get_progressapi")

\* /get_progressApi\('(.*?)'\)/.exec(x)?.[1]: the text between the leftmost
\* get_progressApi(' whose next ') comes before any line terminator (which
\* "." does not match) and that ')
progressApiExec(x) ==
    LET lit == "get_progressApi('"
        close(k) == IndexOfFrom(x, "')", k + Len(lit))
        starts == {k \in 1..Len(x) :
                      /\ StartsWith(Drop(x, k - 1), lit)
                      /\ close(k) # 0
                      /\ \A m \in (k + Len(lit))..(close(k) - 1) :
                             CharAt(x, m) \notin LineTerminators}
    IN  IF starts = {} THEN <<>>
        ELSE <<SubSeq(x, Min(starts) + Len(lit), close(Min(starts)) - 1)>>

\* one callback of extractTableMedia's each
tableDescriptor(row) ==
    LET mediaUrl == OrElse(FirstHref(row.anchors), FirstOnclick(row.buttons))
        shouldRender == progressApiTest(IF Truthy(mediaUrl) THEN mediaUrl[1] ELSE "")
        path == progressApiExec(IF Truthy(mediaUrl) THEN mediaUrl[1] ELSE "")
        type == IF row.resolution # "" THEN "video" ELSE "image"
    IN  IF shouldRender
        THEN [resolution |-> row.resolution, shouldRender |-> TRUE,
              \* ("https://snapsave.app" + path) || mediaUrl: + binds tighter
              url |-> <<SnapSaveHost \o (IF path = <<>> THEN "undefined" ELSE path[1])>>,
              type |-> type]
        ELSE [resolution |-> row.resolution, url |-> mediaUrl, type |-> type]

extractTableMedia(d) == [k \in 1..Len(d.rows) |-> tableDescriptor(d.rows[k])]

\* a mutant of typeOfText: the text is compared without the test for a photo
typeOfTextVideo(text) == "video"

\* aText === "Download Photo" ? "image" : "video"
typeOfText(text) == IF text = "Download Photo" THEN "image" ELSE "video"

extractCardMedia(d) ==
    [k \in 1..Len(d.cards) |->
        [url |-> FirstHref(d.cards[k].anchors),
         type |-> typeOfText(Trim(TextOf(d.cards[k].anchors)))]]

extractSimpleMedia(d) ==
    << [url |-> OrElse(FirstHref(d.anchors), FirstOnclick(d.buttons)),
        type |-> typeOfText(Trim(TextOf(d.anchors)))] >>

\* one callback of extractDownloadItemsMedia's each; fixThumbnail may throw
itemDescriptor(item) ==
    LET type == typeOfText(Trim(item.spanText))
        thumb == IF type = "video" /\ Truthy(item.thumb)
                 THEN fixThumbnail(item.thumb[1]) ELSE Ok(<<>>)
    IN  IF ~thumb.ok THEN thumb
        ELSE IF type = "video" /\ Truthy(item.thumb)
        THEN Ok([url |-> FirstHref(item.anchors), thumbnail |-> thumb.val, type |-> type])
        ELSE Ok([url |-> FirstHref(item.anchors), type |-> type])

extractDownloadItemsMedia(d) ==
    IF \E k \in 1..Len(d.items) : ~itemDescriptor(d.items[k]).ok THEN URIError
    ELSE Ok([k \in 1..Len(d.items) |-> itemDescriptor(d.items[k]).val])

-----------------------------------------------------------------------------
(* SnapSaverService.download: the choice of the layout *)

\* a mutant of selectLayout: the download-items layout is looked for first
selectLayoutItemsFirst(d) ==
    IF Len(d.items) > 0 THEN "items"
    ELSE IF d.table \/ d.figure
    THEN (IF d.table THEN "table" ELSE IF Len(d.cards) > 0 THEN "card" ELSE "simple")
    ELSE "none"

\* which branch of the if / else-if chain runs
selectLayout(d) ==
    IF d.table \/ d.figure
    THEN (IF d.table THEN "table" ELSE IF Len(d.cards) > 0 THEN "card" ELSE "simple")
    ELSE IF Len(d.items) > 0 THEN "items"
    ELSE "none"

\* the data object after the branch has run
extractData(d) == IF d.table \/ d.figure THEN extractMetadata(d) ELSE <<>>

\* the media array after the branch has run
extractMedia(d) ==
    CASE selectLayout(d) = "table"  -> Ok(extractTableMedia(d))
      [] selectLayout(d) = "card"   -> Ok(extractCardMedia(d))
      [] selectLayout(d) = "simple" -> Ok(extractSimpleMedia(d))
      [] selectLayout(d) = "items"  -> extractDownloadItemsMedia(d)
      [] OTHER                      -> Ok(<<>>)

-----------------------------------------------------------------------------
(* Inputs: the URLs download is called with *)

Urls ==
    { "https://www.facebook.com/watch/?v=1377532133417378",
      "https://www.instagram.com/reel/ABC123def/",
      "https://VT.TikTok.com/@user/video/7",
      "https://fb.watch/abcdef123/",
      "https://www.youtube.com/watch?v=dQw4w9WgXcQ",
      "https://www.instagram.com/p/?x",
      "ftp://www.facebook.com/reel/1",
      "https://www.tiktok.com/",
      "https://facebook.com/a/\nb",
      "" }

-----------------------------------------------------------------------------
(* Inputs: what the upstream service answers.  The cipher texts are written *)
(* with the symbol map kzQwXnRtS, base 7 (delimiter t) and offset 20.       *)

\* the shape of a real response: a script that calls the cipher, whose text
\* decodes to the innerHTML assignment of an escaped fragment
RespFull ==
    "x=function(h,u,n,t,e,r){return decodeURIComponent(escape(r))"
    \o "}(\"QwXtQwQtQnwtznntQXQtQwQtQXwtQwQtQXXtQnwtznQtQRztzRQtQwztz"
    \o "zXtzkntQwztQXntQnRtQXXtQXQtQXntQQntQwztzQQtQnQtQwQtQwktQnwtQ"
    \o "wRtQXntQXXtzkntzzntzQwtQwRtQXXtQXXtQwQtQnztzRztQkRtzRRtzRntz"
    \o "kwtzXXtzkwtzkntzXwtQXRtzkwtQwRtQwztzXXtQQktzkntQXwtQQktzkntz"
    \o "XntzkntzXQtzkwtQwztQXntQwktQnXtQXwtQwQtQXXtQnwtzQwtQwXtQwQtQ"
    \o "nwtznntQXQtQwQtQXwtQwQtQXXtQnwtznQtQRztzRQtQwztzzXtzkntQwRtQ"
    \o "XXtQXRtQnXtQnwtznXtQQntQnwtQQntzkntzzntzQwtQnztQwQtQXwtQXntQ"
    \o "nntQwQtzzXtzzntzXQtzkwt\",35,\"kzQwXnRtS\",20,7,43))"

\* the response ends after the sixth argument: the closing marker is missing
RespNoClose ==
    "x=function(h,u,n,t,e,r){return decodeURIComponent(escape(r))"
    \o "}(\"QwXtQwQtQnwtznntQXQtQwQtQXwtQwQtQXXtQnwtznQtQRztzRQtQwztz"
    \o "zXtzkntQwztQXntQnRtQXXtQXQtQXntQQntQwztzQQtQnQtQwQtQwktQnwtQ"
    \o "wRtQXntQXXtzkntzzntzQwtQwRtQXXtQXXtQwQtQnztzRztQkRtzRRtzRntz"
    \o "kwtzXXtzkwtzkntzXwtQXRtzXnt\",35,\"kzQwXnRtS\",20,7,43"

\* the decoded script assigns an empty fragment
RespEmptyHtml ==
    "decodeURIComponent(escape(r))}(\"QwXtQwQtQnwtznntQXQtQwQtQXwt"
    \o "QwQtQXXtQnwtznQtQRztzRQtQwztzzXtzkntQwztQXntQnRtQXXtQXQtQXnt"
    \o "QQntQwztzQQtQnQtQwQtQwktQnwtQwRtQXntQXXtzkntzzntzQwtQwRtQXXt"
    \o "QXXtQwQtQnztzRztQkRtzRRtzRntzkwtzXXtzkwtzknt\",35,\"kzQwXnRtS\""
    \o ",20,7,43))"

\* no cipher call at all
RespNoOpen ==
    "<html>429 Too Many Requests</html>"

\* the cipher decodes to a script without the innerHTML assignment
RespNoMarker ==
    "decodeURIComponent(escape(r))}(\"QQntQXQtQwQtQnztQnwtzzXtzknt"
    \o "QwQtzkntzznt\",35,\"kzQwXnRtS\",20,7,43))"

\* a two-byte UTF-8 character in the cipher text
RespUtf8 ==
    "decodeURIComponent(escape(r))}(\"XQntwRkt\",35,\"kzQwXnRtS\",20,"
    \o "7,43))"

\* the last segment is not closed by the delimiter
RespUnterminated ==
    "decodeURIComponent(escape(r))}(\"QQntQQR\",35,\"kzQwXnRtS\",20,7"
    \o ",43))"

\* the delimiter does not occur in the cipher text
RespNoDelimiter ==
    "decodeURIComponent(escape(r))}(\"QwX\",35,\"kzQwXnRtS\",20,7,43)"
    \o ")"

\* one argument
RespOneArg ==
    "decodeURIComponent(escape(r))}(\"QQnt\"))"

\* three arguments
RespThreeArgs ==
    "decodeURIComponent(escape(r))}(\"QQnt\",35,\"kzQwXnRtS\"))"

\* four arguments and no closing marker
RespFourArgs ==
    "decodeURIComponent(escape(r))}(\"QQnt\",35,\"kzQwXnRtS\",20"

\* a symbol map that holds a metacharacter of regular expressions
RespBadMap ==
    "decodeURIComponent(escape(r))}(\"((nt\",35,\"kz(wXnRtS\",20,7,43"
    \o "))"

\* the base and the offset written as other numeric literals: decodes to "g"
RespLiterals ==
    "decodeURIComponent(escape(r))}(\"QwXt\",35,\"kzQwXnRtS\",2e1,+7,43"
    \o "))"

\* a symbol map that holds ".", and a line feed inside the cipher text
RespDotMap ==
    "decodeURIComponent(escape(r))}(\"Q\nQt\",35,\"k.QwXnRtS\",20,7,43"
    \o "))"

\* a base that is no double: the segment "540" in base 6.2 sums to 217
RespFractionBase ==
    "decodeURIComponent(escape(r))}(\"nXk\",35,\"kzQwXnRtS\",20,6.2,43"
    \o "))"

Responses ==
    { RespFull, RespNoClose, RespEmptyHtml, RespNoOpen, RespNoMarker, RespUtf8,
      RespUnterminated, RespNoDelimiter, RespOneArg, RespThreeArgs, RespFourArgs,
      RespBadMap, RespLiterals, RespDotMap, RespFractionBase }

-----------------------------------------------------------------------------
(* Inputs: the documents the fragment parses to *)

A(text, href) == [text |-> text, href |-> href]

B(onclick) == [onclick |-> onclick]

Row(resolution, as, bs) == [resolution |-> resolution, anchors |-> as, buttons |-> bs]

Card(as) == [anchors |-> as]

Item(thumb, as, spanText) == [thumb |-> thumb, anchors |-> as, spanText |-> spanText]

Rows ==
    { Row("720p", <<A("Download", <<"https://d.rapidcdn.app/d?t=1">>)>>, <<>>),
      Row("360p", <<>>, <<B(<<"get_progressApi('/render.php?t=2')">>)>>),
      Row("", <<A("Download Photo", <<"https://d.rapidcdn.app/p.jpg">>)>>, <<>>),
      Row("1080p", <<A("Download Photo", <<"get_progressApi('a\nb');get_progressApi('/r4');">>)>>, <<>>),
      Row("480p", <<>>, <<B(<<"GET_PROGRESSAPI('/render.php?t=5')">>)>>),
      Row("", <<A("Download", <<"">>)>>, <<B(<<"get_progressApi(\"/r6\")">>)>>),
      Row("240p", <<>>, <<>>) }

Cards ==
    { Card(<<A("Download Photo", <<"https://d.rapidcdn.app/c1.jpg">>)>>),
      Card(<<A(" Download Photo\n", <<"https://d.rapidcdn.app/c2.jpg">>)>>),
      Card(<<A("Download Video", <<"https://d.rapidcdn.app/c3.mp4">>)>>),
      Card(<<>>) }

Items ==
    { Item(<<"https://snapinsta.app/photo.php?photo=https%3A%2F%2Fcdn.example.com%2Fa%0Ab%C3%A9.jpg">>,
           <<A("Download Video", <<"https://d.rapidcdn.app/i1.mp4">>)>>, "Download Video"),
      Item(<<"https://cdn.example.com/t2.jpg">>,
           <<A("Download Photo", <<"https://d.rapidcdn.app/i2.jpg">>)>>, "Download Photo"),
      Item(<<"https://snapinsta.app/photo.php?photo=%E0%A4%A">>,
           <<A("Download Video", <<"https://d.rapidcdn.app/i3.mp4">>)>>, "Download Video"),
      Item(<<"https://cdn.example.com/t4.jpg">>,
           <<A("Download Photo", <<"https://d.rapidcdn.app/i4.jpg">>)>>, "HD"),
      Item(<<>>, <<>>, "") }

\* the sequences over S of length at most MaxElems
SeqsUpTo(S) == UNION {[1..n -> S] : n \in 0..MaxElems}

\* the a elements (the button elements) of a list of rows, cards or items
RECURSIVE AnchorsOf(_)
AnchorsOf(es) == IF Len(es) = 0 THEN <<>> ELSE es[1].anchors \o AnchorsOf(Tail(es))

RECURSIVE ButtonsOf(_)
ButtonsOf(es) == IF Len(es) = 0 THEN <<>> ELSE es[1].buttons \o ButtonsOf(Tail(es))

\* a document with the given table and figure markers, rows, cards, items and
\* a and button elements outside them; a document with the figure has the
\* description and the preview image
MkDoc(table, figure, rows, cards, as, bs, items) ==
    [table |-> table, figure |-> figure,
     description |-> IF figure THEN " A clip \n" ELSE "",
     figureImg |-> IF figure THEN <<"https://cdn.example.com/prev.jpg">> ELSE <<>>,
     rows |-> rows, cards |-> cards, items |-> items,
     anchors |-> as \o AnchorsOf(rows) \o AnchorsOf(cards) \o AnchorsOf(items),
     buttons |-> bs \o ButtonsOf(rows)]

\* what load("") and the load of a text without elements give
EmptyDoc == MkDoc(FALSE, FALSE, <<>>, <<>>, <<>>, <<>>, <<>>)

TableDocs ==
    { MkDoc(TRUE, f, rows, cards, <<>>, <<>>, items) :
        f \in BOOLEAN, rows \in SeqsUpTo(Rows),
        cards \in {<<>>, <<Card(<<A("Download Photo", <<"https://d.rapidcdn.app/c1.jpg">>)>>)>>},
        items \in {<<>>, <<Item(<<>>, <<A("Download Video", <<"https://d.rapidcdn.app/i1.mp4">>)>>,
                                "Download Video")>>} }

CardDocs ==
    { MkDoc(FALSE, TRUE, <<>>, cards, <<>>, <<>>, items) :
        cards \in SeqsUpTo(Cards) \ {<<>>},
        items \in {<<>>, <<Item(<<>>, <<A("Download Video", <<"https://d.rapidcdn.app/i1.mp4">>)>>,
                                "Download Video")>>} }

SimpleDocs ==
    { MkDoc(FALSE, TRUE, <<>>, <<>>, as, bs, items) :
        as \in { <<>>, <<A("Download Photo", <<"https://d.rapidcdn.app/s1.jpg">>)>>,
                 <<A("Download", <<>>)>>, <<A(" Download Photo ", <<"">>)>> },
        bs \in { <<>>, <<B(<<"download()">>)>> },
        items \in {<<>>, <<Item(<<>>, <<A("Download Video", <<"https://d.rapidcdn.app/i1.mp4">>)>>,
                                "Download Video")>>} }

ItemDocs ==
    { MkDoc(FALSE, FALSE, rows, cards, <<>>, <<>>, items) :
        rows \in {<<>>, <<Row("720p", <<A("Download", <<"https://d.rapidcdn.app/d?t=1">>)>>, <<>>)>>},
        cards \in {<<>>, <<Card(<<A("Download Photo", <<"https://d.rapidcdn.app/c1.jpg">>)>>)>>},
        items \in SeqsUpTo(Items) }

Docs == TableDocs \cup CardDocs \cup SimpleDocs \cup ItemDocs

\* load(decodedHtml): cheerio's parser is outside the repository; a text
\* without "<" has no elements, any other text parses to one of Docs
load(h) == IF \A k \in 1..Len(h) : h[k] # 60 THEN {EmptyDoc} ELSE Docs

-----------------------------------------------------------------------------
(* SnapSaverService.download *)

NoResponse == [pending |-> TRUE]

InvalidUrlResponse == [success |-> FALSE, message |-> "Invalid URL"]

NoMediaResponse == [success |-> FALSE, message |-> "No downloadable media found"]

\* a mutant of CatchResponse: the catch block hands the error on
CatchResponseRethrow == [rejected |-> TRUE]

\* what the catch block returns
CatchResponse == [success |-> FALSE, message |-> "Failed to process download request"]

\* a mutant of respond: the failure for an empty media list carries the data
respondPartial(d, m) ==
    IF Len(m) = 0
    THEN [success |-> FALSE, message |-> "No downloadable media found", data |-> d]
    ELSE [success |-> TRUE, data |-> d @@ [media |-> m]]

\* a mutant of respond: an empty media list is a valid result
respondAlways(d, m) == [success |-> TRUE, data |-> d @@ [media |-> m]]

\* the last statements of the try block
respond(d, m) ==
    IF Len(m) = 0 THEN NoMediaResponse
    ELSE [success |-> TRUE, data |-> d @@ [media |-> m]]

ConvIdle == [pc |-> "idle", n |-> 0, b |-> 0, enc |-> "", back |-> ""]

Init ==
    /\ url \in Urls
    /\ pc = "Validate"
    /\ trace = <<>>
    /\ fetchCalls = 0
    /\ html = ""
    /\ args = <<>>
    /\ i = 0
    /\ decodedResult = <<>>
    /\ decodedHtml = <<>>
    /\ doc = EmptyDoc
    /\ layout = "none"
    /\ data = <<>>
    /\ media = <<>>
    /\ thrown = "none"
    /\ response = NoResponse
    /\ conv = ConvIdle

\* an exception reaches the catch block: the promise resolves with its value
Catch(stage) ==
    /\ thrown' = stage
    /\ response' = CatchResponse
    /\ pc' = "Done"

\* a mutant of Validate: an unsupported URL is reported but not returned on
ValidateFallThrough ==
    /\ pc = "Validate"
    /\ pc' = "Fetch"
    /\ trace' = <<"Validate">>
    /\ response' = IF isValid(url) THEN response ELSE InvalidUrlResponse
    /\ UNCHANGED <<url, fetchCalls, html, args, i, decodedResult, decodedHtml,
                   doc, layout, data, media, thrown, conv>>

\* if (!this.urlValidator.isValid(url)) return { success: false, ... }
Validate ==
    /\ pc = "Validate"
    /\ IF isValid(url)
       THEN /\ pc' = "Fetch"
            /\ trace' = <<"Validate">>
            /\ response' = response
       ELSE /\ pc' = "Done"
            /\ trace' = <<"Validate", "Respond">>
            /\ response' = InvalidUrlResponse
    /\ UNCHANGED <<url, fetchCalls, html, args, i, decodedResult, decodedHtml,
                   doc, layout, data, media, thrown, conv>>

\* this.apiClient.fetchMedia(url) is called and download awaits its promise
FetchCall ==
    /\ pc = "Fetch"
    /\ fetchCalls' = fetchCalls + 1
    /\ trace' = Append(trace, "Fetch")
    /\ pc' = "Awaiting"
    /\ UNCHANGED <<url, html, args, i, decodedResult, decodedHtml, doc, layout,
                   data, media, thrown, response, conv>>

\* the promise resolves with the text of the response
FetchResolve ==
    /\ pc = "Awaiting"
    /\ \E r \in Responses : html' = r
    /\ pc' = "Decode"
    /\ UNCHANGED <<url, trace, fetchCalls, args, i, decodedResult, decodedHtml,
                   doc, layout, data, media, thrown, response, conv>>

\* the promise rejects
FetchReject ==
    /\ pc = "Awaiting"
    /\ Catch("Fetch")
    /\ trace' = Append(trace, "Respond")
    /\ UNCHANGED <<url, fetchCalls, html, args, i, decodedResult, decodedHtml,
                   doc, layout, data, media, conv>>

\* decrypt: getEncodedSnapApp(data), then decodeSnapApp up to its loop
DecodeArgs ==
    /\ pc = "Decode"
    /\ LET a == getEncodedSnapApp(html)
       IN  IF a.ok
           THEN /\ args' = a.val
                /\ pc' = "DecodeLoop"
                /\ trace' = Append(trace, "Decode")
                /\ UNCHANGED <<thrown, response>>
           ELSE /\ Catch("Decode")
                /\ trace' = trace \o <<"Decode", "Respond">>
                /\ args' = args
    /\ i' = 0
    /\ decodedResult' = <<>>
    /\ UNCHANGED <<url, fetchCalls, html, decodedHtml, doc, layout, data, media, conv>>

\* one iteration of decodeSnapApp's for loop whose inner scan stops
DecodeIter ==
    /\ pc = "DecodeLoop"
    /\ i < Len(args[1])
    /\ Len(args) >= 3 => scanEnd(args, i) >= 0
    /\ \E r \in decodeStep(args, i) :
           IF r.ok
           THEN /\ decodedResult' = Append(decodedResult, r.val.unit)
                /\ i' = r.val.next
                /\ UNCHANGED <<pc, trace, thrown, response>>
           ELSE /\ Catch("Decode")
                /\ trace' = Append(trace, "Respond")
                /\ UNCHANGED <<i, decodedResult>>
    /\ UNCHANGED <<url, fetchCalls, html, args, decodedHtml, doc, layout, data,
                   media, conv>>

\* an iteration whose inner scan does not meet the delimiter: the while loop
\* has taken every remaining character and stands at the end of the text
DecodeRunOff ==
    /\ pc = "DecodeLoop"
    /\ i < Len(args[1])
    /\ Len(args) >= 3
    /\ scanEnd(args, i) < 0
    /\ i' = Len(args[1])
    /\ pc' = "DecodeScan"
    /\ UNCHANGED <<url, trace, fetchCalls, html, args, decodedResult, decodedHtml,
                   doc, layout, data, media, thrown, response, conv>>

\* the while loop past the end: encodedContent[i] is undefined, which is not
\* the delimiter; segment += undefined; i++
DecodeScanPast ==
    /\ pc = "DecodeScan"
    /\ i < Len(args[1]) + MaxOverscan
    /\ i' = i + 1
    /\ UNCHANGED <<url, pc, trace, fetchCalls, html, args, decodedResult,
                   decodedHtml, doc, layout, data, media, thrown, response, conv>>

\* the scan has no exit of its own: the segment grows by "undefined" at
\* every iteration until the engine gives up. Either the concatenation
\* throws (RangeError: Invalid string length), which the catch block of
\* download turns into its Response, or the process runs out of heap and
\* download never answers (no step is taken).
DecodeExhausted ==
    /\ pc = "DecodeScan"
    /\ i = Len(args[1]) + MaxOverscan
    /\ Catch("Decode")
    /\ trace' = Append(trace, "Respond")
    /\ UNCHANGED <<url, fetchCalls, html, args, i, decodedResult, decodedHtml,
                   doc, layout, data, media, conv>>

\* the for loop ends: return this.fixEncoding(decodedResult)
DecodeDone ==
    /\ pc = "DecodeLoop"
    /\ i >= Len(args[1])
    /\ decodedResult' = fixEncoding(decodedResult)
    /\ pc' = "Unwrap"
    /\ UNCHANGED <<url, trace, fetchCalls, html, args, i, decodedHtml, doc,
                   layout, data, media, thrown, response, conv>>

\* decrypt: getDecodedSnapSave
Unwrap ==
    /\ pc = "Unwrap"
    /\ LET h == getDecodedSnapSave(decodedResult)
       IN  IF h.ok
           THEN /\ decodedHtml' = h.val
                /\ pc' = "Parse"
                /\ trace' = Append(trace, "Unwrap")
                /\ UNCHANGED <<thrown, response>>
           ELSE /\ Catch("Unwrap")
                /\ trace' = trace \o <<"Unwrap", "Respond">>
                /\ decodedHtml' = decodedHtml
    /\ UNCHANGED <<url, fetchCalls, html, args, i, decodedResult, doc, layout,
                   data, media, conv>>

\* const $ = load(decodedHtml)
Parse ==
    /\ pc = "Parse"
    /\ doc' \in load(decodedHtml)
    /\ pc' = "Extract"
    /\ trace' = Append(trace, "Parse")
    /\ UNCHANGED <<url, fetchCalls, html, args, i, decodedResult, decodedHtml,
                   layout, data, media, thrown, response, conv>>

\* the if / else-if chain over the layouts
Extract ==
    /\ pc = "Extract"
    /\ layout' = selectLayout(doc)
    /\ LET m == extractMedia(doc)
       IN  IF m.ok
           THEN /\ media' = m.val
                /\ data' = extractData(doc)
                /\ pc' = "Respond"
                /\ trace' = Append(trace, "Extract")
                /\ UNCHANGED <<thrown, response>>
           ELSE /\ Catch("Extract")
                /\ trace' = trace \o <<"Extract", "Respond">>
                /\ UNCHANGED <<media, data>>
    /\ UNCHANGED <<url, fetchCalls, html, args, i, decodedResult, decodedHtml,
                   doc, conv>>

\* if (!media.length) return ...; data.media = media; return ...
Respond ==
    /\ pc = "Respond"
    /\ response' = respond(data, media)
    /\ data' = IF Len(media) = 0 THEN data ELSE data @@ [media |-> media]
    /\ pc' = "Done"
    /\ trace' = Append(trace, "Respond")
    /\ UNCHANGED <<url, fetchCalls, html, args, i, decodedResult, decodedHtml,
                   doc, layout, media, thrown, conv>>

Next ==
    \/ Validate
    \/ FetchCall
    \/ FetchResolve
    \/ FetchReject
    \/ DecodeArgs
    \/ DecodeIter
    \/ DecodeRunOff
    \/ DecodeScanPast
    \/ DecodeExhausted
    \/ DecodeDone
    \/ Unwrap
    \/ Parse
    \/ Extract
    \/ Respond

Spec == Init /\ [][Next]_vars

-----------------------------------------------------------------------------
(* BaseConverter round trip: decodeNumber applied to the digit string of n, *)
(* base 10 to base b, and to the result, base b to base 10                  *)

InitConv ==
    /\ url = ""
    /\ pc = "Idle"
    /\ trace = <<>>
    /\ fetchCalls = 0
    /\ html = ""
    /\ args = <<>>
    /\ i = 0
    /\ decodedResult = <<>>
    /\ decodedHtml = <<>>
    /\ doc = EmptyDoc
    /\ layout = "none"
    /\ data = <<>>
    /\ media = <<>>
    /\ thrown = "none"
    /\ response = NoResponse
    /\ \E n \in 0..MaxN, b \in 2..Len(charset) :
           conv = [pc |-> "start", n |-> n, b |-> b, enc |-> "", back |-> ""]

ConvEncode ==
    /\ conv.pc = "start"
    /\ conv' = [conv EXCEPT !.pc = "encoded",
                            !.enc = decodeNumber(NumToStr(conv.n), 10, conv.b)]
    /\ UNCHANGED <<url, pc, trace, fetchCalls, html, args, i, decodedResult,
                   decodedHtml, doc, layout, data, media, thrown, response>>

ConvDecode ==
    /\ conv.pc = "encoded"
    /\ conv' = [conv EXCEPT !.pc = "done",
                            !.back = decodeNumber(conv.enc, conv.b, 10)]
    /\ UNCHANGED <<url, pc, trace, fetchCalls, html, args, i, decodedResult,
                   decodedHtml, doc, layout, data, media, thrown, response>>

NextConv == ConvEncode \/ ConvDecode

SpecConv == InitConv /\ [][NextConv]_vars

-----------------------------------------------------------------------------
(* Properties of download *)

Returned == pc = "Done"

\* the extraction ran to its end without an exception
Extracted == pc \in {"Respond", "Done"} /\ thrown = "none" /\ layout # "none"

\* C1: every Response download returns has exactly one variant populated:
\* message is present iff success is false, data is present iff success is
\* true; until it returns there is no Response.
C1_ExactlyOneVariant ==
    IF Returned
    THEN /\ "success" \in DOMAIN response
         /\ response.success \in BOOLEAN
         /\ ("message" \in DOMAIN response) <=> (response.success = FALSE)
         /\ ("data" \in DOMAIN response) <=> (response.success = TRUE)
         /\ DOMAIN response \subseteq {"success", "message", "data"}
    ELSE response = NoResponse

\* C1 witness: a success Response with data and a failure Response are both
\* possible; here the success one, with its media
C1_Witness ==
    /\ Returned
    /\ response.success = TRUE
    /\ "data" \in DOMAIN response
    /\ "message" \notin DOMAIN response
    /\ Len(response.data.media) > 0

\* C2: whenever a stage throws or the fetch promise rejects, download resolves
\* with exactly {success: false, message: "Failed to process download
\* request"}, with no data, and the exception goes no further.
C2_ErrorsCollapse ==
    thrown # "none" =>
        /\ Returned
        /\ response = [success |-> FALSE,
                       message |-> "Failed to process download request"]
        /\ thrown \in {"Fetch", "Decode", "Unwrap", "Parse", "Extract"}

\* C2 witness: the Extract stage has thrown (fixThumbnail's URIError) after
\* every earlier stage succeeded
C2_Witness ==
    /\ thrown = "Extract"
    /\ Returned
    /\ trace = <<"Validate", "Fetch", "Decode", "Unwrap", "Parse", "Extract", "Respond">>

StageOrder == <<"Validate", "Fetch", "Decode", "Unwrap", "Parse", "Extract">>

\* C3: the stages are entered in the fixed order, each once and only after
\* the earlier ones succeeded; for a URL that fails validation the fetch is
\* never called and the Response is {success: false, message: "Invalid URL"};
\* for a valid URL the fetch is called exactly once.
C3_StageOrder ==
    /\ \E k \in 0..Len(StageOrder) :
          \/ trace = SubSeq(StageOrder, 1, k) /\ ~Returned
          \/ k >= 1 /\ trace = Append(SubSeq(StageOrder, 1, k), "Respond") /\ Returned
    /\ thrown # "none" => trace[Len(trace) - 1] = thrown
    /\ ~isValid(url) => fetchCalls = 0
    /\ (~isValid(url) /\ Returned) =>
           response = [success |-> FALSE, message |-> "Invalid URL"]
    /\ isValid(url) => fetchCalls = (IF pc \in {"Validate", "Fetch"} THEN 0 ELSE 1)

\* C3 witness: an unsupported URL has been answered without a fetch
C3_Witness ==
    /\ Returned
    /\ ~isValid(url)
    /\ fetchCalls = 0
    /\ trace = <<"Validate", "Respond">>

\* C4: when every stage up to the extraction succeeded, the Response is
\* {success: false, message: "No downloadable media found"} iff the extraction
\* gave no media item, which is so for every document without a structural
\* marker; every success Response carries a non-empty media list.
C4_NoMediaIff ==
    /\ (Returned /\ thrown = "none" /\ isValid(url)) =>
          /\ (response = [success |-> FALSE, message |-> "No downloadable media found"])
                <=> (Len(media) = 0)
          /\ (~doc.table /\ ~doc.figure /\ Len(doc.items) = 0) => Len(media) = 0
    /\ (Returned /\ "data" \in DOMAIN response) =>
          /\ Len(response.data.media) > 0
          /\ response.data.media = media

\* C4 witness: a document with the table marker and download items but no
\* table row is answered with the no-media failure
C4_Witness ==
    /\ Returned
    /\ thrown = "none"
    /\ doc.table
    /\ Len(doc.items) > 0
    /\ Len(media) = 0
    /\ response = [success |-> FALSE, message |-> "No downloadable media found"]

\* C5: the layout is chosen by priority: with a table marker the table
\* extraction produces media, also when download items are present; the
\* download-items extraction runs only without table and figure markers; under
\* the figure marker cards are preferred over the simple layout.
C5_LayoutPriority ==
    (pc \in {"Respond", "Done"} /\ Len(trace) >= 6) =>
        /\ doc.table => (layout = "table" /\ media = extractTableMedia(doc))
        /\ (~doc.table /\ doc.figure /\ Len(doc.cards) > 0) =>
              (layout = "card" /\ media = extractCardMedia(doc))
        /\ (~doc.table /\ doc.figure /\ Len(doc.cards) = 0) =>
              (layout = "simple" /\ media = extractSimpleMedia(doc))
        /\ layout = "items" => (~doc.table /\ ~doc.figure /\ Len(doc.items) > 0)
        /\ (~doc.table /\ ~doc.figure /\ Len(doc.items) = 0) => layout = "none"

\* C5 witness: a document with a table, cards and download items has been
\* extracted by the table layout
C5_Witness ==
    /\ Returned
    /\ doc.table
    /\ Len(doc.rows) > 0
    /\ Len(doc.cards) > 0
    /\ Len(doc.items) > 0
    /\ layout = "table"
    /\ response.success = TRUE
    /\ Len(response.data.media) = Len(doc.rows)

-----------------------------------------------------------------------------
(* Properties of the decoder *)

\* C6 (as claimed): a cipher text whose last segment is not closed by the
\* delimiter makes the decoding end in a failure; the scan never goes past
\* the end of the cipher text.
C6_ScanStaysInside ==
    pc \in {"DecodeLoop", "DecodeScan"} => i <= Len(args[1])

\* the text after the opening marker that getEncodedSnapApp works on
AfterOpen(d) == Split(d, OpenMarker)[2]

\* the fetched text has the opening marker, and lacks the closing marker or
\* has fewer than five arguments
Malformed(d) ==
    /\ Includes(d, OpenMarker)
    /\ \/ ~Includes(AfterOpen(d), CloseMarker)
       \/ Len(Split(Split(AfterOpen(d), CloseMarker)[1], ",")) < 5

\* C7 (as claimed): a response with the opening marker but without the
\* closing marker, or with fewer than five arguments, is answered with
\* {success: false, message: "Failed to process download request"} and never
\* with a success Response.
C7_MalformedFails ==
    (Returned /\ fetchCalls = 1 /\ thrown # "Fetch" /\ Malformed(html)) =>
        /\ response.success = FALSE
        /\ response = [success |-> FALSE,
                       message |-> "Failed to process download request"]

-----------------------------------------------------------------------------
(* Properties of the extractor *)

\* the raw text of the anchor(s) of media item k under each layout
AnchorText(k) ==
    CASE layout = "table"  -> TextOf(doc.rows[k].anchors)
      [] layout = "card"   -> TextOf(doc.cards[k].anchors)
      [] layout = "simple" -> TextOf(doc.anchors)
      [] layout = "items"  -> TextOf(doc.items[k].anchors)

\* C8 (as claimed): in every layout a media item whose anchor has the text
\* "Download Photo" has type "image", and with any other text type "video".
C8_TypeByAnchorText ==
    Extracted =>
        \A k \in 1..Len(media) :
            media[k].type = (IF AnchorText(k) = "Download Photo" THEN "image" ELSE "video")

\* C8 (amended): in the card and simple layouts the type is "image" exactly
\* when the trimmed text of the anchor(s) is "Download Photo", else "video";
\* in the download-items layout the same rule holds of the trimmed text of
\* the button's span; in the table layout the type is "video" exactly when the
\* resolution cell has text, whatever the anchor says.
C8_TypeInference ==
    Extracted =>
        \A k \in 1..Len(media) :
            media[k].type =
                CASE layout = "table"  ->
                        (IF doc.rows[k].resolution # "" THEN "video" ELSE "image")
                  [] layout \in {"card", "simple"} ->
                        (IF Trim(AnchorText(k)) = "Download Photo" THEN "image" ELSE "video")
                  [] layout = "items"  ->
                        (IF Trim(doc.items[k].spanText) = "Download Photo"
                         THEN "image" ELSE "video")

\* C8 witness: a card whose anchor text is "Download Photo" with whitespace
\* around it has given an image, next to a card that has given a video
C8_Witness ==
    /\ Extracted
    /\ layout = "card"
    /\ \E k \in 1..Len(media) :
          /\ media[k].type = "image"
          /\ AnchorText(k) # "Download Photo"
    /\ \E k \in 1..Len(media) : media[k].type = "video"

\* the action attribute of a row: the link's href, else the button's handler
ActionOf(row) == OrElse(FirstHref(row.anchors), FirstOnclick(row.buttons))

\* the path the progress-API call pattern captures in the action attribute
CapturedPath(row) ==
    IF Truthy(ActionOf(row)) THEN progressApiExec(ActionOf(row)[1]) ELSE <<>>

\* C9 (as claimed): one descriptor per row, in row order; if the action
\* attribute matches the progress-API call pattern the descriptor has
\* shouldRender = true and url = "https://snapsave.app" + the captured path;
\* otherwise it has no shouldRender and url is the attribute unchanged.
C9_TableUrlRule ==
    (Extracted /\ layout = "table") =>
        /\ Len(media) = Len(doc.rows)
        /\ \A k \in 1..Len(media) :
              /\ media[k].resolution = doc.rows[k].resolution
              /\ IF CapturedPath(doc.rows[k]) # <<>>
                 THEN /\ "shouldRender" \in DOMAIN media[k]
                      /\ media[k].shouldRender = TRUE
                      /\ media[k].url = <<"https://snapsave.app" \o CapturedPath(doc.rows[k])[1]>>
                 ELSE /\ "shouldRender" \notin DOMAIN media[k]
                      /\ media[k].url = ActionOf(doc.rows[k])

-----------------------------------------------------------------------------
(* Properties of decodeNumber *)

\* C10: for every base b in 2..64 and every n up to MaxN, the base-10 digit
\* string of n converted to base b and back to base 10 is the digit string of
\* n again; zero is "0" in both directions.
C10_RoundTrip ==
    /\ conv.pc = "done" => conv.back = NumToStr(conv.n)
    /\ (conv.pc \in {"encoded", "done"} /\ conv.n = 0) => conv.enc = "0"

\* C10 witness: a number with two digits in base 64 has gone there and back
C10_Witness ==
    /\ conv.pc = "done"
    /\ conv.b = 64
    /\ conv.n > 64
    /\ Len(conv.enc) = 2
    /\ conv.back = NumToStr(conv.n)

-----------------------------------------------------------------------------
(* Properties of the media descriptors *)

\* C11 (as claimed): in every success Response every element of data.media
\* has a defined url and a type that is "image" or "video", whatever the
\* document the extraction ran on.
C11_WellFormedMedia ==
    (Returned /\ response.success = TRUE) =>
        \A k \in 1..Len(response.data.media) :
            /\ Len(response.data.media[k].url) = 1
            /\ response.data.media[k].type \in {"image", "video"}

=============================================================================
